---- MODULE Spec2Model ----
(***************************************************************************)
(* RealityFixer: the annotation overlay (AnnotationCanvas), the App shell  *)
(* that mounts it, and the coordinate mapping it applies.                  *)
(*                                                                         *)
(* Pixel quantities of the render pass are carried exactly, as integers in *)
(* units of 1/1000 px: the JavaScript expression  c * scaleX  with         *)
(* scaleX = width / 1000 is the integer  c * width  here, and a literal    *)
(* offset of 10 px is 10000.  The IEEE-754 rounding of the same two        *)
(* expressions is modelled separately by the Dbl* operators.               *)
(***************************************************************************)
EXTENDS Integers, Sequences, FiniteSets, TLC

VARIABLES
    status,        \* App state.status
    imageSrc,      \* App state.imageSrc   ("" is null)
    result,        \* App state.result     ([present |-> FALSE, ...] is null)
    error,         \* App state.error      ("" is null)
    viewportDims,  \* App viewportDims: [width, height]
    pending,       \* an analyzeImage promise of handleCapture is in flight
    completed,     \* history: the annotations of the latest completed analysis
    mounted,       \* an AnnotationCanvas (and its <canvas>) is mounted
    acq,           \* what the mounted canvas yields: "ok", "nocanvas", "noctx"
    props,         \* the props of the latest commit: [annotations, width, height]
    ctx,           \* the 2D context's drawing state
    path,          \* the 2D context's current path
    surface,       \* what is painted on the canvas bitmap since it was last blank
    calls,         \* the context calls of the latest render pass, in order
    crashed,       \* an exception escaped an effect: React unmounted the tree
    lastPass,      \* history: how the latest effect run came about
    mapIn,         \* coordinate mapper: the input [cx, cy, width, height]
    mapOut,        \* coordinate mapper: the doubles [x, y] it produced
    panelMounted,  \* a ResultsPanel is mounted
    panelInst,     \* which ResultsPanel instance (1, 2, ...; 0: none yet)
    isSpeaking,    \* ResultsPanel isSpeaking of the mounted instance
    utts,          \* the utterances given to speechSynthesis: [inst, st]
    events,        \* utterance events fired and not yet dispatched: [utt, type]
    camMounted,    \* a CameraCapture is mounted
    camInst,       \* which CameraCapture instance (1, 2, ...; 0: none yet)
    stream,        \* CameraCapture stream of the mounted instance (0 is null)
    camError,      \* CameraCapture error of the mounted instance is set
    requests,      \* pending getUserMedia promises: the instance that awaits each
    streams        \* the MediaStreams acquired: "live" or "stopped", by id

appVars    == <<status, imageSrc, result, error, viewportDims, pending, completed>>
canvasVars == <<mounted, acq, props, ctx, path, surface, calls, crashed, lastPass>>
mapVars    == <<mapIn, mapOut>>
speechVars == <<panelMounted, panelInst, isSpeaking, utts, events>>
cameraVars == <<camMounted, camInst, stream, camError, requests, streams>>
vars       == <<appVars, canvasVars, mapVars, speechVars, cameraVars>>

(***************************************************************************)
(* Bounds and input domains                                                *)
(***************************************************************************)
MaxAnns == 2

Widths  == {800, 1001}
Heights == {600, 1000}
\* The viewport sizes: none of them square, two that differ in the width
\* only and two that differ in the height only.
Dims    == {d \in [width : Widths, height : Heights] : d.width = 800 \/ d.height = 600}
Images  == {"data:image/jpeg;base64,AAAA", "data:image/jpeg;base64,BBBB"}

(***************************************************************************)
(* types.ts: Annotation.  An optional field is a record [present, val];    *)
(* an absent (undefined or null) field has present = FALSE.                *)
(***************************************************************************)
Some(v) == [present |-> TRUE, val |-> v]
NoArr   == [present |-> FALSE, val |-> <<>>]
NoNum   == [present |-> FALSE, val |-> 0]

Annotation(type, label, box_2d, center, radius, start, end) ==
    [type |-> type, label |-> label, box_2d |-> box_2d, center |-> center,
     radius |-> radius, start |-> start, end |-> end]

BoxAnn(type, label, box_2d) ==
    Annotation(type, label, box_2d, NoArr, NoNum, NoArr, NoArr)
CircleAnn(label, center, radius) ==
    Annotation("circle", label, NoArr, center, radius, NoArr, NoArr)
ArrowAnn(label, start, end) ==
    Annotation("arrow", label, NoArr, NoArr, NoNum, start, end)

\* The annotations a diagnosis may carry: well-formed ones of each variant,
\* flipped and out-of-range boxes, wrong-length and absent coordinate arrays,
\* a circle without radius, with radius 0 and with a negative radius, an
\* unknown type.
AnnPool ==
    { BoxAnn("box", "A", Some(<<100, 200, 300, 400>>)),
      BoxAnn("box", "", Some(<<300, 1200, 100, -50>>)),
      BoxAnn("box", "A", Some(<<100, 200, 300>>)),
      BoxAnn("highlight", "Bc", Some(<<0, 0, 1000, 1000>>)),
      BoxAnn("highlight", "Bc", NoArr),
      CircleAnn("A", Some(<<500, 250>>), Some(100)),
      CircleAnn("Bc", Some(<<500, 250>>), NoNum),
      CircleAnn("A", Some(<<500>>), Some(100)),
      CircleAnn("A", Some(<<500, 250>>), Some(-5)),
      CircleAnn("", Some(<<100, 900>>), Some(0)),
      ArrowAnn("Bc", Some(<<0, 0>>), Some(<<1000, 0>>)),
      ArrowAnn("A", Some(<<10, 20>>), Some(<<30, 40, 50>>)),
      ArrowAnn("A", NoArr, Some(<<30, 40>>)),
      BoxAnn("polygon", "A", Some(<<100, 200, 300, 400>>)) }

RECURSIVE SeqsUpTo(_, _)
SeqsUpTo(S, n) ==
    IF n = 0 THEN {<<>>}
    ELSE LET shorter == SeqsUpTo(S, n - 1)
         IN  shorter \cup {Append(s, a) : s \in shorter, a \in S}

AnnLists == SeqsUpTo(AnnPool, MaxAnns)

\* The value of an `annotations` prop: an array (kind "array", with the
\* identity `ref` React compares dependencies by), or null, undefined, a
\* plain object or a non-empty string.
ArrayOf(ref, items) == [kind |-> "array", ref |-> ref, items |-> items]
NonArray(kind)      == [kind |-> kind, ref |-> 0, items |-> <<>>]
NonArrayKinds       == {"null", "undefined", "object", "string"}


(***************************************************************************)
(* The 2D context.  A call of the log is a record                          *)
(*   [op, prop, val, args, text, path, style, tag]                         *)
(* op: the method ("set" is a property assignment); args: its numeric      *)
(* arguments in 1/1000 px; style: the drawing state a painting call used;  *)
(* path: the path a stroke() or fill() painted; tag: the index of the      *)
(* annotation whose iteration issued it (0: the prologue of the pass).     *)
(***************************************************************************)
DefaultCtx ==
    [fillStyle |-> "#000000", strokeStyle |-> "#000000", lineWidth |-> "1",
     shadowColor |-> "rgba(0, 0, 0, 0)", shadowBlur |-> "0",
     font |-> "10px sans-serif"]

NoStyle ==
    [fillStyle |-> "", strokeStyle |-> "", lineWidth |-> "",
     shadowColor |-> "", shadowBlur |-> "", font |-> ""]

Call(op, prop, val, args, text, pth, style, tag) ==
    [op |-> op, prop |-> prop, val |-> val, args |-> args, text |-> text,
     path |-> pth, style |-> style, tag |-> tag]

\* The calls that put pixels on the bitmap.
PaintOps == {"fillRect", "strokeRect", "stroke", "fill", "fillText"}
\* The calls that draw a shape or a label (everything but clearRect and the
\* property assignments).
ShapeOps == PaintOps \cup {"beginPath", "arc", "moveTo", "lineTo", "lineToWing",
                           "measureText"}

\* The state a render pass threads through its calls: the context's drawing
\* state, the bitmap, the current path, the log, and whether a call threw.
Rs(c, s, p, l, t) == [ctx |-> c, surface |-> s, path |-> p, calls |-> l, thrown |-> t]

\* One context call: logged, and painted when it is a painting call.  After
\* an exception nothing more of the pass runs.
Issue(rs, call, newCtx, newPath) ==
    IF rs.thrown THEN rs
    ELSE Rs(newCtx,
            IF call.op \in PaintOps THEN Append(rs.surface, [call EXCEPT !.tag = 0])
            ELSE rs.surface,
            newPath, Append(rs.calls, call), FALSE)

SetProp(rs, prop, val, tag) ==
    Issue(rs, Call("set", prop, val, <<>>, "", <<>>, NoStyle, tag),
          [rs.ctx EXCEPT ![prop] = val], rs.path)

\* clearRect(0, 0, width, height) on a bitmap of width x height: the whole
\* bitmap becomes blank.
ClearRect(rs, x, y, w, h, tag) ==
    IF rs.thrown THEN rs
    ELSE Rs(rs.ctx, <<>>, rs.path,
            Append(rs.calls, Call("clearRect", "", "", <<x, y, w, h>>, "", <<>>, NoStyle, tag)),
            FALSE)

FillRect(rs, x, y, w, h, tag) ==
    Issue(rs, Call("fillRect", "", "", <<x, y, w, h>>, "", <<>>, rs.ctx, tag), rs.ctx, rs.path)

StrokeRect(rs, x, y, w, h, tag) ==
    Issue(rs, Call("strokeRect", "", "", <<x, y, w, h>>, "", <<>>, rs.ctx, tag), rs.ctx, rs.path)

BeginPath(rs, tag) ==
    Issue(rs, Call("beginPath", "", "", <<>>, "", <<>>, NoStyle, tag), rs.ctx, <<>>)

PathSeg(op, args) == [op |-> op, args |-> args]

\* arc(x, y, radius, 0, 2 * Math.PI): a negative radius throws IndexSizeError.
Arc(rs, x, y, r, tag) ==
    IF rs.thrown THEN rs
    ELSE IF r < 0 THEN [rs EXCEPT !.thrown = TRUE]
    ELSE Issue(rs, Call("arc", "", "", <<x, y, r>>, "", <<>>, NoStyle, tag),
               rs.ctx, Append(rs.path, PathSeg("arc", <<x, y, r>>)))

MoveTo(rs, x, y, tag) ==
    Issue(rs, Call("moveTo", "", "", <<x, y>>, "", <<>>, NoStyle, tag),
          rs.ctx, Append(rs.path, PathSeg("moveTo", <<x, y>>)))

LineTo(rs, x, y, tag) ==
    Issue(rs, Call("lineTo", "", "", <<x, y>>, "", <<>>, NoStyle, tag),
          rs.ctx, Append(rs.path, PathSeg("lineTo", <<x, y>>)))

\* lineTo of an arrowhead wing: the point at distance headLength from
\* (x2, y2), against the direction atan2(dy, dx) turned by deg degrees.  The
\* point is kept as the inputs of that expression.
LineToWing(rs, x2, y2, dx, dy, headLength, deg, tag) ==
    Issue(rs, Call("lineToWing", "", "", <<x2, y2, dx, dy, headLength, deg>>, "", <<>>, NoStyle, tag),
          rs.ctx, Append(rs.path, PathSeg("lineToWing", <<x2, y2, dx, dy, headLength, deg>>)))

Stroke(rs, tag) ==
    Issue(rs, Call("stroke", "", "", <<>>, "", rs.path, rs.ctx, tag), rs.ctx, rs.path)

Fill(rs, tag) ==
    Issue(rs, Call("fill", "", "", <<>>, "", rs.path, rs.ctx, tag), rs.ctx, rs.path)

\* measureText(text).width in the current font, in 1/1000 px.
TextWidth(text) ==
    CASE text = ""   -> 0
      [] text = "A"  -> 9500
      [] text = "Bc" -> 17250
      [] OTHER       -> 8000

MeasureText(rs, text, tag) ==
    Issue(rs, Call("measureText", "", "", <<>>, text, <<>>, NoStyle, tag), rs.ctx, rs.path)

FillText(rs, text, x, y, tag) ==
    Issue(rs, Call("fillText", "", "", <<x, y>>, text, <<>>, rs.ctx, tag), rs.ctx, rs.path)


(***************************************************************************)
(* AnnotationCanvas: the render pass (the effect of lines 13-92)           *)
(***************************************************************************)
Padding    == 6000     \* drawLabel: padding = 6
TextRise   == 14000    \* drawLabel: y - 14 - padding
PlateH     == 24000    \* drawLabel: the backing plate's height, 24
HeadLength == 15000    \* drawArrow: headLength = 15
BoxLabelUp == 10000    \* box label: y - 10
CircLabelUp   == 10000 \* circle label: cy - r - 10
CircLabelLeft == 20000 \* circle label: cx - 20
ArrowLabelUp  == 20000 \* arrow label: y1 - 20
DefaultRadius == 50    \* ann.radius || 50

\* Faulty variant: scaleY computed from the width.
ScaleYFromWidth(width, height) == width

\* scaleX = width / 1000 and scaleY = height / 1000, in thousandths: a
\* coordinate c maps to c * ScaleX thousandths of a pixel.
ScaleX(width, height) == width
ScaleY(width, height) == height

\* Color logic based on type.
ColorOf(type) ==
    CASE type = "highlight" -> "#f97316"
      [] type = "box"       -> "#22c55e"
      [] type = "arrow"     -> "#eab308"
      [] type = "circle"    -> "#ef4444"
      [] OTHER              -> "#3b82f6"

\* Faulty variant: the text is drawn without setting the colour again after
\* the backing plate.
DrawLabelNoRestore(rs, text, x, y, color, tag) ==
    LET r1 == MeasureText(rs, text, tag)
        r2 == SetProp(r1, "fillStyle", "rgba(0,0,0,0.8)", tag)
        r3 == FillRect(r2, x - Padding, y - TextRise - Padding,
                       TextWidth(text) + Padding * 2, PlateH, tag)
    IN  FillText(r3, text, x, y, tag)

\* drawLabel(ctx, text, x, y, color)
DrawLabel(rs, text, x, y, color, tag) ==
    LET r1 == MeasureText(rs, text, tag)
        r2 == SetProp(r1, "fillStyle", "rgba(0,0,0,0.8)", tag)
        r3 == FillRect(r2, x - Padding, y - TextRise - Padding,
                       TextWidth(text) + Padding * 2, PlateH, tag)
        r4 == SetProp(r3, "fillStyle", color, tag)
    IN  FillText(r4, text, x, y, tag)

\* drawArrow(ctx, x1, y1, x2, y2)
DrawArrow(rs, x1, y1, x2, y2, tag) ==
    LET r1 == BeginPath(rs, tag)
        r2 == MoveTo(r1, x1, y1, tag)
        r3 == LineTo(r2, x2, y2, tag)
        r4 == Stroke(r3, tag)
        r5 == BeginPath(r4, tag)
        r6 == MoveTo(r5, x2, y2, tag)
        r7 == LineToWing(r6, x2, y2, x2 - x1, y2 - y1, HeadLength, -30, tag)
        r8 == LineToWing(r7, x2, y2, x2 - x1, y2 - y1, HeadLength, 30, tag)
        r9 == LineTo(r8, x2, y2, tag)
    IN  Fill(r9, tag)

\* Faulty variant: the length test accepts longer arrays.
HasLenAtLeast(field, n) == field.present /\ Len(field.val) >= n

\* ann.box_2d && ann.box_2d.length === 4, and the like.
HasLen(field, n) == field.present /\ Len(field.val) = n

\* Faulty variant: every rectangle is filled and stroked, highlight or not.
DrawBoxFillAll(rs, ann, color, scaleX, scaleY, tag) ==
    IF ~HasLen(ann.box_2d, 4) THEN rs
    ELSE LET y == ann.box_2d.val[1] * scaleY
             x == ann.box_2d.val[2] * scaleX
             h == (ann.box_2d.val[3] - ann.box_2d.val[1]) * scaleY
             w == (ann.box_2d.val[4] - ann.box_2d.val[2]) * scaleX
             shape == StrokeRect(FillRect(SetProp(rs, "fillStyle", color \o "40", tag),
                                          x, y, w, h, tag),
                                 x, y, w, h, tag)
         IN  DrawLabel(shape, ann.label, x, y - BoxLabelUp, color, tag)

\* The box / highlight branch (lines 46-65).
DrawBox(rs, ann, color, scaleX, scaleY, tag) ==
    IF ~HasLen(ann.box_2d, 4) THEN rs
    ELSE LET ymin == ann.box_2d.val[1]
             xmin == ann.box_2d.val[2]
             ymax == ann.box_2d.val[3]
             xmax == ann.box_2d.val[4]
             y == ymin * scaleY
             x == xmin * scaleX
             h == (ymax - ymin) * scaleY
             w == (xmax - xmin) * scaleX
             shape ==
                 IF ann.type = "highlight"
                 THEN StrokeRect(FillRect(SetProp(rs, "fillStyle", color \o "40", tag),
                                          x, y, w, h, tag),
                                 x, y, w, h, tag)
                 ELSE StrokeRect(rs, x, y, w, h, tag)
         IN  DrawLabel(shape, ann.label, x, y - BoxLabelUp, color, tag)

\* The circle branch (lines 66-78).
DrawCircle(rs, ann, color, scaleX, scaleY, tag) ==
    IF ~HasLen(ann.center, 2) THEN rs
    ELSE LET cx == ann.center.val[1] * scaleX
             cy == ann.center.val[2] * scaleY
             r  == (IF ann.radius.present /\ ann.radius.val # 0
                    THEN ann.radius.val ELSE DefaultRadius) * scaleX
             r1 == BeginPath(rs, tag)
             r2 == Arc(r1, cx, cy, r, tag)
             r3 == Stroke(r2, tag)
         IN  DrawLabel(r3, ann.label, cx - CircLabelLeft, cy - r - CircLabelUp, color, tag)

\* Faulty variant: the arrow's label is anchored above its end point.
DrawArrowAnnLabelAtEnd(rs, ann, color, scaleX, scaleY, tag) ==
    IF ~(HasLen(ann.start, 2) /\ HasLen(ann.end, 2)) THEN rs
    ELSE LET x1 == ann.start.val[1] * scaleX
             y1 == ann.start.val[2] * scaleY
             x2 == ann.end.val[1] * scaleX
             y2 == ann.end.val[2] * scaleY
         IN  DrawLabel(DrawArrow(rs, x1, y1, x2, y2, tag),
                       ann.label, x2, y2 - ArrowLabelUp, color, tag)

\* The arrow branch (lines 79-90).
DrawArrowAnn(rs, ann, color, scaleX, scaleY, tag) ==
    IF ~(HasLen(ann.start, 2) /\ HasLen(ann.end, 2)) THEN rs
    ELSE LET x1 == ann.start.val[1] * scaleX
             y1 == ann.start.val[2] * scaleY
             x2 == ann.end.val[1] * scaleX
             y2 == ann.end.val[2] * scaleY
         IN  DrawLabel(DrawArrow(rs, x1, y1, x2, y2, tag),
                       ann.label, x1, y1 - ArrowLabelUp, color, tag)

\* Faulty variant: only the stroke colour is set per annotation.
SetColorsStrokeOnly(rs, color, tag) == SetProp(rs, "strokeStyle", color, tag)

\* The styles every iteration sets before it dispatches (lines 43-44).
SetColors(rs, color, tag) ==
    SetProp(SetProp(rs, "strokeStyle", color, tag), "fillStyle", color, tag)

\* Faulty variant: the dispatch draws every other type as a box.
DrawAnnotationElseBox(rs, ann, scaleX, scaleY, tag) ==
    LET color == ColorOf(ann.type)
        r1    == SetColors(rs, color, tag)
    IN  IF ann.type = "circle"
        THEN DrawCircle(r1, ann, color, scaleX, scaleY, tag)
        ELSE IF ann.type = "arrow"
        THEN DrawArrowAnn(r1, ann, color, scaleX, scaleY, tag)
        ELSE DrawBox(r1, ann, color, scaleX, scaleY, tag)

\* One iteration of annotations.forEach (lines 35-91).
DrawAnnotation(rs, ann, scaleX, scaleY, tag) ==
    LET color == ColorOf(ann.type)
        r1    == SetColors(rs, color, tag)
    IN  IF ann.type = "box" \/ ann.type = "highlight"
        THEN DrawBox(r1, ann, color, scaleX, scaleY, tag)
        ELSE IF ann.type = "circle"
        THEN DrawCircle(r1, ann, color, scaleX, scaleY, tag)
        ELSE IF ann.type = "arrow"
        THEN DrawArrowAnn(r1, ann, color, scaleX, scaleY, tag)
        ELSE r1

\* Faulty variant: the list is visited from its end.
VisitOrderReversed(n) == [k \in 1..n |-> n + 1 - k]

\* The order annotations.forEach visits the indices of a list of n entries.
VisitOrder(n) == [k \in 1..n |-> k]

RECURSIVE ForEach(_, _, _, _, _, _)
ForEach(rs, items, order, k, scaleX, scaleY) ==
    IF k > Len(order) THEN rs
    ELSE ForEach(DrawAnnotation(rs, items[order[k]], scaleX, scaleY, order[k]),
                 items, order, k + 1, scaleX, scaleY)

\* The shared styles (lines 27-30).
CommonStyles(rs) ==
    LET r1 == SetProp(rs, "lineWidth", "3", 0)
        r2 == SetProp(r1, "shadowColor", "rgba(0,0,0,0.8)", 0)
        r3 == SetProp(r2, "shadowBlur", "4", 0)
    IN  SetProp(r3, "font", "bold 14px Inter, sans-serif", 0)

\* !annotations || !Array.isArray(annotations)
IsDrawableList(annotations) == annotations.kind = "array"

\* Faulty variant: the defensive check comes before the clear.
RenderPassCheckFirst(c, p, s, annotations, width, height) ==
    LET r0 == Rs(c, s, p, <<>>, FALSE)
    IN  IF ~IsDrawableList(annotations) THEN r0
        ELSE ForEach(CommonStyles(ClearRect(r0, 0, 0, width * 1000, height * 1000, 0)),
                     annotations.items, VisitOrder(Len(annotations.items)), 1,
                     ScaleX(width, height), ScaleY(width, height))

\* The pass once the context is acquired (lines 19-91), from the drawing
\* state c, the current path p and the bitmap s the previous passes left.
RenderPass(c, p, s, annotations, width, height) ==
    LET r0 == Rs(c, s, p, <<>>, FALSE)
        r1 == ClearRect(r0, 0, 0, width * 1000, height * 1000, 0)
        r2 == CommonStyles(r1)
    IN  IF ~IsDrawableList(annotations) THEN r2
        ELSE ForEach(r2, annotations.items, VisitOrder(Len(annotations.items)), 1,
                     ScaleX(width, height), ScaleY(width, height))

\* Faulty variant: the effect draws without checking what it acquired.
EffectUnchecked(acquired, c, p, s, annotations, width, height) ==
    RenderPass(c, p, s, annotations, width, height)

\* The effect (lines 13-92): without a canvas or without a context it
\* returns before any call.
Effect(acquired, c, p, s, annotations, width, height) ==
    IF acquired # "ok" THEN Rs(c, s, p, <<>>, FALSE)
    ELSE RenderPass(c, p, s, annotations, width, height)


(***************************************************************************)
(* AnnotationCanvas as React commits it                                    *)
(***************************************************************************)
Acqs == {"ok", "nocanvas", "noctx"}

Props(annotations, width, height) ==
    [annotations |-> annotations, width |-> width, height |-> height]

NoProps == Props(NonArray("undefined"), 0, 0)

\* The canvas state as one record.
\* lastPass is "mount" (the effect ran for a new element), "update" (it ran
\* again because a dependency changed and the inputs differ), "repeat" (it
\* ran again on the same annotations, width and height, in a new array) or
\* "none".
Canvas(m, a, pr, c, p, s, l, t, lp) ==
    [mounted |-> m, acq |-> a, props |-> pr, ctx |-> c, path |-> p,
     surface |-> s, calls |-> l, crashed |-> t, lastPass |-> lp]

NoCanvas == Canvas(FALSE, "none", NoProps, DefaultCtx, <<>>, <<>>, <<>>, FALSE, "none")

\* The inputs of a pass: the annotations' content, the width, the height.
Inputs(pr) == <<pr.annotations.kind, pr.annotations.items, pr.width, pr.height>>

\* What Object.is compares of an `annotations` value: an array or an object
\* by reference, null and undefined by kind.
Identity(annotations) == <<annotations.kind, annotations.ref>>

\* Faulty variant: the effect depends on the annotations only.
DepsAnnotationsOnly(old, new) ==
    Identity(old.annotations) # Identity(new.annotations)

\* The effect's dependencies [annotations, width, height] (line 92).
DepsChanged(old, new) ==
    \/ Identity(old.annotations) # Identity(new.annotations)
    \/ old.width # new.width
    \/ old.height # new.height

\* One commit of <AnnotationCanvas {...np} /> over the canvas cv.  A mount
\* creates the <canvas> (whose getContext answer is na, the same for the
\* element's life); a changed width or height attribute resets the bitmap
\* and the drawing state; then the effect runs if a dependency changed.  An
\* exception out of the effect unmounts the tree.
CommitCanvas(cv, np, na) ==
    LET fresh   == ~cv.mounted
        a       == IF fresh THEN na ELSE cv.acq
        resized == fresh \/ cv.props.width # np.width \/ cv.props.height # np.height
        c0      == IF resized THEN DefaultCtx ELSE cv.ctx
        p0      == IF resized THEN <<>> ELSE cv.path
        s0      == IF resized THEN <<>> ELSE cv.surface
        run     == fresh \/ DepsChanged(cv.props, np)
        rs      == Effect(a, c0, p0, s0, np.annotations, np.width, np.height)
        how     == IF fresh THEN "mount"
                   ELSE IF Inputs(cv.props) = Inputs(np) THEN "repeat"
                   ELSE "update"
    IN  IF ~run THEN Canvas(TRUE, a, np, c0, p0, s0, cv.calls, FALSE, cv.lastPass)
        ELSE IF rs.thrown
        THEN Canvas(FALSE, "none", np, DefaultCtx, <<>>, <<>>, rs.calls, TRUE, how)
        ELSE Canvas(TRUE, a, np, rs.ctx, rs.path, rs.surface, rs.calls, FALSE, how)

CurrentCanvas == Canvas(mounted, acq, props, ctx, path, surface, calls, crashed, lastPass)

SetCanvas(cv) ==
    /\ mounted' = cv.mounted
    /\ acq' = cv.acq
    /\ props' = cv.props
    /\ ctx' = cv.ctx
    /\ path' = cv.path
    /\ surface' = cv.surface
    /\ calls' = cv.calls
    /\ crashed' = cv.crashed
    /\ lastPass' = cv.lastPass

(***************************************************************************)
(* App                                                                     *)
(***************************************************************************)
NoResult == [present |-> FALSE, annotations |-> NonArray("null")]
Diagnosis(annotations) == [present |-> TRUE, annotations |-> annotations]

AppState(st, img, res, err) ==
    [status |-> st, imageSrc |-> img, result |-> res, error |-> err]

IdleState == AppState("idle", "", NoResult, "")

FailedMessage ==
    "Failed to analyze the image. Please try again or check your internet connection."

\* geminiService.analyzeImage: annotations is the parsed array, or [].
SanitizeAnnotations(parsed) ==
    IF parsed.kind = "array" THEN parsed ELSE ArrayOf(0, <<>>)

\* Faulty variant: the canvas is rendered whenever the image is.
MountCondNoStatus(st) ==
    /\ st.status \in {"analyzing", "complete", "error"}
    /\ st.imageSrc # ""

\* The condition under which App renders <AnnotationCanvas> (lines 92, 102).
MountCond(st) ==
    /\ st.status \in {"analyzing", "complete", "error"}
    /\ st.imageSrc # ""
    /\ st.status = "complete"
    /\ st.result.present

\* The props App passes (lines 103-107).
CanvasProps(st, dims) == Props(st.result.annotations, dims.width, dims.height)

\* The commit that follows a state update: App renders, AnnotationCanvas is
\* mounted, updated or unmounted.
AppCommit(st, dims, na) ==
    IF MountCond(st)
    THEN SetCanvas(CommitCanvas(CurrentCanvas, CanvasProps(st, dims), na))
    ELSE SetCanvas(NoCanvas)

SetApp(st) ==
    /\ status' = st.status
    /\ imageSrc' = st.imageSrc
    /\ result' = st.result
    /\ error' = st.error

CurrentApp == AppState(status, imageSrc, result, error)

\* The state handleCapture sets before it awaits (line 26).
CaptureState(prev, imageData) ==
    [prev EXCEPT !.status = "analyzing", !.imageSrc = imageData, !.error = ""]
\* The state handleCapture sets when analyzeImage resolves (lines 30-34).
SuccessState(prev, diagnosis) ==
    [prev EXCEPT !.status = "complete", !.result = diagnosis]
\* The state handleCapture sets when analyzeImage rejects (lines 37-41).
FailureState(prev) ==
    [prev EXCEPT !.status = "error", !.error = FailedMessage]

\* CameraCapture is rendered, and calls onCapture, only while status is idle.
HandleCapture(imageData) ==
    /\ ~crashed
    /\ status = "idle"
    /\ SetApp(CaptureState(CurrentApp, imageData))
    /\ pending' = TRUE
    /\ \E na \in Acqs : AppCommit(CaptureState(CurrentApp, imageData), viewportDims, na)
    /\ UNCHANGED <<viewportDims, completed, mapVars, speechVars, cameraVars>>

AnalyzeSuccess(parsed) ==
    /\ ~crashed
    /\ pending
    /\ LET st == SuccessState(CurrentApp, Diagnosis(SanitizeAnnotations(parsed)))
       IN  /\ SetApp(st)
           /\ completed' = st.result
           /\ \E na \in Acqs : AppCommit(st, viewportDims, na)
    /\ pending' = FALSE
    /\ UNCHANGED <<viewportDims, mapVars, speechVars, cameraVars>>

AnalyzeFailure ==
    /\ ~crashed
    /\ pending
    /\ SetApp(FailureState(CurrentApp))
    /\ pending' = FALSE
    /\ \E na \in Acqs : AppCommit(FailureState(CurrentApp), viewportDims, na)
    /\ UNCHANGED <<viewportDims, completed, mapVars, speechVars, cameraVars>>

\* The close button (rendered with the image unless analyzing), the error
\* overlay's Try Again, and ResultsPanel's onReset.
HandleReset ==
    /\ ~crashed
    /\ status \in {"complete", "error"}
    /\ imageSrc # ""
    /\ SetApp(IdleState)
    /\ completed' = NoResult
    /\ \E na \in Acqs : AppCommit(IdleState, viewportDims, na)
    /\ UNCHANGED <<viewportDims, pending, mapVars, speechVars, cameraVars>>

\* The window's resize listener.
HandleResize(dims) ==
    /\ ~crashed
    /\ viewportDims' = dims
    /\ \E na \in Acqs : AppCommit(CurrentApp, dims, na)
    /\ UNCHANGED <<status, imageSrc, result, error, pending, completed, mapVars, speechVars, cameraVars>>


\* No ResultsPanel yet, nothing given to speechSynthesis.
InitSpeechNone ==
    /\ panelMounted = FALSE
    /\ panelInst = 0
    /\ isSpeaking = FALSE
    /\ utts = <<>>
    /\ events = <<>>

\* No CameraCapture yet, no getUserMedia call made.
InitCameraNone ==
    /\ camMounted = FALSE
    /\ camInst = 0
    /\ stream = 0
    /\ camError = FALSE
    /\ requests = <<>>
    /\ streams = <<>>

InitCanvasNone ==
    /\ mounted = FALSE
    /\ acq = "none"
    /\ props = NoProps
    /\ ctx = DefaultCtx
    /\ path = <<>>
    /\ surface = <<>>
    /\ calls = <<>>
    /\ crashed = FALSE
    /\ lastPass = "none"

InitAppIdle ==
    /\ status = "idle"
    /\ imageSrc = ""
    /\ result = NoResult
    /\ error = ""
    /\ pending = FALSE
    /\ completed = NoResult

NoMap == [cx |-> 0, cy |-> 0, width |-> 0, height |-> 0]
NoOut == [done |-> FALSE,
          x |-> [neg |-> FALSE, mant |-> <<>>, exp |-> 0],
          y |-> [neg |-> FALSE, mant |-> <<>>, exp |-> 0]]

InitMapNone ==
    /\ mapIn = NoMap
    /\ mapOut = NoOut

\* App after its first render: idle, the viewport at the window's size.
Init ==
    /\ InitAppIdle
    /\ InitSpeechNone
    /\ InitCameraNone
    /\ viewportDims \in Dims
    /\ InitCanvasNone
    /\ InitMapNone

ParsedAnnotations == {ArrayOf(0, items) : items \in AnnLists} \cup {NonArray(k) : k \in NonArrayKinds}

Next ==
    \/ \E imageData \in Images : HandleCapture(imageData)
    \/ \E parsed \in ParsedAnnotations : AnalyzeSuccess(parsed)
    \/ AnalyzeFailure
    \/ HandleReset
    \/ \E dims \in Dims : HandleResize(dims)

Spec == Init /\ [][Next]_vars

(***************************************************************************)
(* AnnotationCanvas on its own, under a parent that re-renders it with any *)
(* props                                                                   *)
(***************************************************************************)
InitCanvas ==
    /\ InitAppIdle
    /\ InitSpeechNone
    /\ InitCameraNone
    /\ viewportDims = [width |-> 800, height |-> 600]
    /\ InitMapNone
    /\ \E items \in AnnLists, d \in Dims, na \in Acqs :
         LET cv == CommitCanvas(NoCanvas, Props(ArrayOf(0, items), d.width, d.height), na)
         IN  /\ mounted = cv.mounted
             /\ acq = cv.acq
             /\ props = cv.props
             /\ ctx = cv.ctx
             /\ path = cv.path
             /\ surface = cv.surface
             /\ calls = cv.calls
             /\ crashed = cv.crashed
             /\ lastPass = cv.lastPass

\* The parent renders the component with the props np.
ParentRender(np) ==
    /\ mounted
    /\ SetCanvas(CommitCanvas(CurrentCanvas, np, acq))
    /\ UNCHANGED <<appVars, mapVars, speechVars, cameraVars>>

FreshRef(annotations) == 1 - annotations.ref

\* The same annotations in a new array.
Rerender ==
    /\ props.annotations.kind = "array"
    /\ ParentRender([props EXCEPT !.annotations.ref = FreshRef(props.annotations)])

\* A new array with one more annotation.
PushAnnotation(a) ==
    /\ props.annotations.kind = "array"
    /\ Len(props.annotations.items) < MaxAnns
    /\ ParentRender([props EXCEPT !.annotations =
           ArrayOf(FreshRef(props.annotations), Append(props.annotations.items, a))])

\* A new array without the first annotation.
DropAnnotation ==
    /\ props.annotations.kind = "array"
    /\ Len(props.annotations.items) > 0
    /\ ParentRender([props EXCEPT !.annotations =
           ArrayOf(FreshRef(props.annotations), Tail(props.annotations.items))])

\* No array at all: null, undefined, an object, a string.
PassNonArray(kind) ==
    /\ props.annotations.kind # kind
    /\ ParentRender([props EXCEPT !.annotations = NonArray(kind)])

\* An (empty) array again.
PassEmptyArray ==
    /\ props.annotations.kind # "array"
    /\ ParentRender([props EXCEPT !.annotations = ArrayOf(0, <<>>)])

\* New width and height.
ResizeCanvas(d) ==
    /\ <<props.width, props.height>> # <<d.width, d.height>>
    /\ ParentRender([props EXCEPT !.width = d.width, !.height = d.height])

NextCanvas ==
    \/ Rerender
    \/ \E a \in AnnPool : PushAnnotation(a)
    \/ DropAnnotation
    \/ \E kind \in NonArrayKinds : PassNonArray(kind)
    \/ PassEmptyArray
    \/ \E d \in Dims : ResizeCanvas(d)

SpecCanvas == InitCanvas /\ [][NextCanvas]_vars


(***************************************************************************)
(* Properties of the render pass (checked under SpecCanvas)                *)
(***************************************************************************)
\* The annotations of the latest commit.
Items == props.annotations.items

\* The calls iteration i of the latest pass issued.
CallsOf(i) == SelectSeq(calls, LAMBDA c : c.tag = i)
\* The shape and label calls among them.
IsShapeCall(c) == c.op \in ShapeOps
ShapeCallsOf(i) == SelectSeq(CallsOf(i), IsShapeCall)

\* A call with its iteration index erased.
Untagged(l) == [k \in 1..Len(l) |-> [l[k] EXCEPT !.tag = 0]]

\* A pass ran with a context in the latest effect run.
PassRan == calls # <<>>

\* The log of a pass over the one annotation a on a new canvas, after its
\* prologue, and whether that pass throws.
SoloPass(a) == RenderPass(DefaultCtx, <<>>, <<>>, ArrayOf(0, <<a>>), props.width, props.height)
SoloCalls(a) == Untagged(SubSeq(SoloPass(a).calls, 6, Len(SoloPass(a).calls)))

\* The first index whose iteration throws, or the length of the list.
Throwers == {i \in 1..Len(Items) : SoloPass(Items[i]).thrown}
LastVisited ==
    IF Throwers = {} THEN Len(Items)
    ELSE CHOOSE i \in Throwers : \A j \in Throwers : i <= j

IsDefaultSet(c, prop, val) == c.op = "set" /\ c.prop = prop /\ c.val = val /\ c.tag = 0

\* C1: a pass clears the whole surface first, then sets the shared defaults
\* (line width, shadow colour, shadow blur, font), then visits the
\* annotations in array order: every call of annotation i precedes every
\* call of annotation i+1, and each visited annotation gets exactly the calls
\* it gets when rendered alone - none is skipped, moved or merged with an
\* equal one.  (An iteration that throws ends the pass there.)
C1_StrictOrder ==
    PassRan =>
        /\ Len(calls) >= 5
        /\ calls[1].op = "clearRect"
        /\ calls[1].args = <<0, 0, props.width * 1000, props.height * 1000>>
        /\ \A k \in 2..Len(calls) : calls[k].op # "clearRect"
        /\ IsDefaultSet(calls[2], "lineWidth", "3")
        /\ IsDefaultSet(calls[3], "shadowColor", "rgba(0,0,0,0.8)")
        /\ IsDefaultSet(calls[4], "shadowBlur", "4")
        /\ IsDefaultSet(calls[5], "font", "bold 14px Inter, sans-serif")
        /\ \A k \in 6..Len(calls) : calls[k].tag >= 1
        /\ \A k \in 1..(Len(calls) - 1) : calls[k].tag <= calls[k + 1].tag
        /\ props.annotations.kind = "array" =>
              \A i \in 1..Len(Items) :
                  IF i <= LastVisited
                  THEN Untagged(CallsOf(i)) = SoloCalls(Items[i])
                  ELSE CallsOf(i) = <<>>

\* Two annotations were drawn, a box and then a circle, one after the other.
C1_Witness ==
    /\ PassRan
    /\ Len(Items) = 2
    /\ \E k \in 1..Len(calls) : calls[k].op = "strokeRect" /\ calls[k].tag = 1
    /\ \E k \in 1..Len(calls) : calls[k].op = "arc" /\ calls[k].tag = 2

\* An annotation of a known variant whose required arrays are absent or of
\* the wrong length (stated from the claim, not from the guards).
Malformed(a) ==
    \/ /\ a.type \in {"box", "highlight"}
       /\ ~(a.box_2d.present /\ Len(a.box_2d.val) = 4)
    \/ /\ a.type = "circle"
       /\ ~(a.center.present /\ Len(a.center.val) = 2)
    \/ /\ a.type = "arrow"
       /\ ~(a.start.present /\ Len(a.start.val) = 2 /\ a.end.present /\ Len(a.end.val) = 2)

WellFormedItems == SelectSeq(Items, LAMBDA a : ~Malformed(a))

\* What a pass shows: its shape and label calls, in order.
ShapeCalls(l) == Untagged(SelectSeq(l, IsShapeCall))

\* The pass over the same list without its malformed annotations, on a new
\* canvas of the same size.
PassWithoutMalformed ==
    RenderPass(DefaultCtx, <<>>, <<>>, ArrayOf(0, WellFormedItems), props.width, props.height)

\* C2: a malformed annotation gets no shape call and no label call and
\* raises nothing, and the pass draws what it draws for the same list without
\* the malformed annotations: the same shape and label calls, the same
\* bitmap, the same outcome.
C2_MalformedSkipped ==
    (PassRan /\ props.annotations.kind = "array") =>
        /\ \A i \in 1..Len(Items) : Malformed(Items[i]) =>
               /\ ShapeCallsOf(i) = <<>>
               /\ ~SoloPass(Items[i]).thrown
        /\ ShapeCalls(calls) = ShapeCalls(PassWithoutMalformed.calls)
        /\ crashed = PassWithoutMalformed.thrown
        /\ ~crashed => surface = PassWithoutMalformed.surface

\* A malformed annotation came first, and the one after it was drawn.
C2_Witness ==
    /\ PassRan
    /\ Len(Items) = 2
    /\ Malformed(Items[1])
    /\ ~Malformed(Items[2])
    /\ \E k \in 1..Len(calls) : calls[k].op = "fillText" /\ calls[k].tag = 2

KnownTypes == {"arrow", "circle", "box", "highlight"}

\* C3: an annotation of an unknown type gets no shape call and no label
\* call, and its iteration raises nothing.
C3_UnknownTypeNoCalls ==
    (PassRan /\ props.annotations.kind = "array") =>
        \A i \in 1..Len(Items) : Items[i].type \notin KnownTypes =>
            /\ ShapeCallsOf(i) = <<>>
            /\ ~SoloPass(Items[i]).thrown
            /\ (crashed => LastVisited # i)

\* An annotation of an unknown type, carrying a usable box_2d, was visited
\* before an annotation that was drawn.
C3_Witness ==
    /\ PassRan
    /\ Len(Items) = 2
    /\ Items[1].type \notin KnownTypes
    /\ Items[1].box_2d.present
    /\ \E k \in 1..Len(calls) : calls[k].op = "fillText" /\ calls[k].tag = 2

\* C4: with annotations null, undefined or not an array the pass clears the
\* surface and issues no shape or label call, the bitmap is blank afterwards,
\* and nothing is raised.
C4_NoListNoDrawing ==
    (mounted /\ acq = "ok" /\ props.annotations.kind # "array") =>
        /\ PassRan
        /\ calls[1].op = "clearRect"
        /\ ShapeCalls(calls) = <<>>
        /\ surface = <<>>
        /\ ~crashed

\* The component was drawn with a list and then re-rendered with null.
C4_Witness ==
    /\ mounted
    /\ acq = "ok"
    /\ props.annotations.kind = "null"
    /\ lastPass = "update"
    /\ PassRan

\* C5: when the canvas or its 2D context is not acquired, the effect issues
\* no call at all, and nothing is painted on the bitmap: every pass on such
\* a canvas checks and does nothing.
C5_NoSurfaceNoCalls ==
    (mounted /\ acq # "ok") =>
        /\ calls = <<>>
        /\ surface = <<>>
        /\ ~crashed

\* A canvas without a context was re-rendered with two annotations.
C5_Witness ==
    /\ mounted
    /\ acq = "noctx"
    /\ lastPass = "update"
    /\ props.annotations.kind = "array"
    /\ Len(Items) = 2

\* C7: a pass that runs again on the same annotations, width and height (a
\* new array with the same content) issues the same calls with the same
\* arguments and styles, and leaves the same bitmap.
C7_Idempotent ==
    [][(mounted /\ mounted' /\ acq = "ok"
        /\ Inputs(props') = Inputs(props)
        /\ Identity(props'.annotations) # Identity(props.annotations))
       => (calls' = calls /\ surface' = surface /\ lastPass' = "repeat")]_vars

\* A pass over an arrow and a highlight ran a second time on the same inputs.
C7_Witness ==
    /\ mounted
    /\ acq = "ok"
    /\ lastPass = "repeat"
    /\ \E k \in 1..Len(calls) : calls[k].op = "fill"
    /\ \E k \in 1..Len(calls) : calls[k].op = "fillRect" /\ calls[k].style.fillStyle = "#f9731640"

\* The strokeRect calls of iteration i.
StrokeRectsOf(i) == SelectSeq(CallsOf(i), LAMBDA c : c.op = "strokeRect")

\* C10: a box or highlight with box_2d = [ymin, xmin, ymax, xmax] is drawn
\* as one rectangle at (xmin*scaleX, ymin*scaleY) of width (xmax-xmin)*scaleX
\* and height (ymax-ymin)*scaleY, a negative width or height included, and
\* its iteration completes (the label's text is drawn, nothing is raised).
C10_BoxGeometry ==
    (PassRan /\ props.annotations.kind = "array") =>
        \A i \in 1..Len(Items) :
            (/\ Items[i].type \in {"box", "highlight"}
             /\ Items[i].box_2d.present
             /\ Len(Items[i].box_2d.val) = 4
             /\ i <= LastVisited) =>
                LET b == Items[i].box_2d.val
                IN  /\ Len(StrokeRectsOf(i)) = 1
                    /\ StrokeRectsOf(i)[1].args =
                           << b[2] * props.width, b[1] * props.height,
                              (b[4] - b[2]) * props.width, (b[3] - b[1]) * props.height >>
                    /\ \E k \in 1..Len(calls) : calls[k].op = "fillText" /\ calls[k].tag = i
                    /\ (crashed => LastVisited # i)

\* A box with ymin > ymax and xmin > xmax was drawn on a canvas that is not
\* square.
C10_Witness ==
    /\ PassRan
    /\ props.width # props.height
    /\ \E i \in 1..Len(Items) :
          /\ Items[i].type = "box"
          /\ Items[i].box_2d.present
          /\ Len(Items[i].box_2d.val) = 4
          /\ Items[i].box_2d.val[1] > Items[i].box_2d.val[3]
          /\ Items[i].box_2d.val[2] > Items[i].box_2d.val[4]
          /\ Len(StrokeRectsOf(i)) = 1
          /\ StrokeRectsOf(i)[1].args[3] < 0
          /\ StrokeRectsOf(i)[1].args[4] < 0


(***************************************************************************)
(* Properties of the App (checked under Spec)                              *)
(***************************************************************************)
\* A pass over the current annotations at the current viewport size, on a
\* new canvas.
FreshPass ==
    RenderPass(DefaultCtx, <<>>, <<>>, result.annotations,
               viewportDims.width, viewportDims.height)

\* C6: whatever resizes and analyses came before, the mounted canvas has the
\* current annotations and viewport size as its props, its latest pass ran at
\* that size, and its bitmap is the one a pass over the current annotations,
\* width and height paints on a new canvas: the same shapes in the same
\* order, at the positions the current size gives.
C6_OverlayIsFreshRender ==
    (mounted /\ acq = "ok") =>
        /\ props = CanvasProps(CurrentApp, viewportDims)
        /\ PassRan
        /\ calls[1].args = <<0, 0, viewportDims.width * 1000, viewportDims.height * 1000>>
        /\ calls = FreshPass.calls
        /\ surface = FreshPass.surface

\* The viewport was resized while two annotations were shown, and the pass
\* ran again.
C6_Witness ==
    /\ mounted
    /\ acq = "ok"
    /\ lastPass = "update"
    /\ Len(Items) = 2
    /\ Len(surface) >= 4

\* C8: a canvas is mounted only while status is complete with a result, it
\* shows the annotations of the latest completed analysis, and nothing is
\* mounted or painted when idle or before another analysis has completed.
C8_RenderedOnlyWhenComplete ==
    /\ mounted => /\ status = "complete"
                  /\ result.present
                  /\ completed.present
                  /\ props.annotations = completed.annotations
                  /\ props.annotations = result.annotations
    /\ (status = "complete" /\ ~crashed) => mounted
    /\ ~mounted => surface = <<>>
    /\ status = "idle" => ~mounted
    /\ ~completed.present => ~mounted

\* The analysis of a captured image completed and its annotation is painted.
C8_Witness ==
    /\ mounted
    /\ status = "complete"
    /\ imageSrc = "data:image/jpeg;base64,BBBB"
    /\ Len(Items) = 1
    /\ surface # <<>>


(***************************************************************************)
(* The coordinate mapper in IEEE-754 double arithmetic                     *)
(*                                                                         *)
(* scaleX = width / 1000 and x = xmin * scaleX are two double operations,  *)
(* each rounded to nearest, ties to even.  A natural number is a sequence  *)
(* of bits, least significant first, with no leading zero (or of 16-bit    *)
(* digits, least significant first, where it is multiplied); a double is   *)
(* [neg, mant, exp] of value (-1)^neg * mant * 2^exp with mant of 53 bits  *)
(* (or empty, for zero).                                                   *)
(***************************************************************************)
MantBits  == 53      \* the significand of a double
DigitBits == 16      \* naturals are multiplied and divided 16 bits at a time
Radix     == 65536   \* 2^DigitBits
DivDigits == 4       \* quotient digits computed below the binary point

Max(S) == CHOOSE x \in S : \A y \in S : y <= x
Min(S) == CHOOSE x \in S : \A y \in S : x <= y

Zeros(n) == [k \in 1..n |-> 0]
BitAt(b, k) == IF k <= Len(b) THEN b[k] ELSE 0

\* b without its leading zeros.
Strip(b) ==
    LET ones == {k \in 1..Len(b) : b[k] = 1}
    IN  IF ones = {} THEN <<>> ELSE SubSeq(b, 1, Max(ones))

\* The bits of the digits ds (least significant digit first).
DigitsToBits(ds) ==
    Strip([k \in 1..(DigitBits * Len(ds)) |->
              (ds[((k - 1) \div DigitBits) + 1] \div (2 ^ ((k - 1) % DigitBits))) % 2])

\* The bits of a natural below 2^31.
NatBits(n) == DigitsToBits(<<n % Radix, n \div Radix>>)

RECURSIVE BitsValue(_, _, _)
BitsValue(b, from, n) ==
    IF n = 0 THEN 0 ELSE BitAt(b, from) + 2 * BitsValue(b, from + 1, n - 1)

\* The digits of the bits b.
BitsToDigits(b) ==
    [j \in 1..((Len(b) + DigitBits - 1) \div DigitBits) |->
        BitsValue(b, DigitBits * (j - 1) + 1, DigitBits)]

ShiftLeft(b, n) == IF b = <<>> THEN <<>> ELSE Zeros(n) \o b

RECURSIVE MulDigits(_, _, _)
MulDigits(ds, m, carry) ==
    IF ds = <<>> THEN <<carry>>
    ELSE LET t == Head(ds) * m + carry
         IN  <<t % Radix>> \o MulDigits(Tail(ds), m, t \div Radix)
\* b times the natural m, m below 2^14.
MulSmall(b, m) == DigitsToBits(MulDigits(BitsToDigits(b), m, 0))

\* b + 1
Inc(b) ==
    LET zeros == {k \in 1..Len(b) : b[k] = 0}
    IN  IF zeros = {} THEN Zeros(Len(b)) \o <<1>>
        ELSE [k \in 1..Len(b) |->
                 IF k < Min(zeros) THEN 0 ELSE IF k = Min(zeros) THEN 1 ELSE b[k]]

\* a <= b
BigLeq(a, b) ==
    IF Len(a) # Len(b) THEN Len(a) < Len(b)
    ELSE LET diff == {k \in 1..Len(a) : a[k] # b[k]}
         IN  diff = {} \/ a[Max(diff)] < b[Max(diff)]

RECURSIVE SubDigits(_, _, _)
SubDigits(da, db, borrow) ==
    IF da = <<>> THEN <<>>
    ELSE LET t == Head(da) - (IF db = <<>> THEN 0 ELSE Head(db)) - borrow
         IN  <<t % Radix>> \o SubDigits(Tail(da), IF db = <<>> THEN <<>> ELSE Tail(db),
                                        IF t < 0 THEN 1 ELSE 0)
\* |a - b|
BigDiff(a, b) ==
    IF BigLeq(b, a) THEN DigitsToBits(SubDigits(BitsToDigits(a), BitsToDigits(b), 0))
    ELSE DigitsToBits(SubDigits(BitsToDigits(b), BitsToDigits(a), 0))

Dbl(neg, mant, exp) == [neg |-> neg, mant |-> mant, exp |-> exp]
DblZero == Dbl(FALSE, <<>>, 0)

\* The natural b * 2^exp (plus, when sticky, a positive amount below its last
\* bit) rounded to a double: to nearest, ties to even.
RoundToDouble(neg, b, exp, sticky) ==
    IF b = <<>> THEN DblZero
    ELSE IF Len(b) <= MantBits
    THEN Dbl(neg, Zeros(MantBits - Len(b)) \o b, exp - (MantBits - Len(b)))
    ELSE LET d     == Len(b) - MantBits
             kept  == SubSeq(b, d + 1, Len(b))
             guard == b[d]
             below == sticky \/ \E k \in 1..(d - 1) : b[k] = 1
             up    == guard = 1 /\ (below \/ kept[1] = 1)
             m     == IF up THEN Inc(kept) ELSE kept
         IN  IF Len(m) > MantBits
             THEN Dbl(neg, SubSeq(m, 2, Len(m)), exp + d + 1)
             ELSE Dbl(neg, m, exp + d)

\* One more quotient digit of a long division by d (d below 2^15): the
\* digits so far (newest first) and the remainder.
DivStep(prev, d) ==
    [digits |-> <<(prev.rem * Radix) \div d>> \o prev.digits,
     rem    |-> (prev.rem * Radix) % d]

\* The first k quotient digits of r / d below the binary point, r < d.
RECURSIVE DivSteps(_, _, _)
DivSteps(r, d, k) ==
    IF k = 0 THEN [digits |-> <<>>, rem |-> r]
    ELSE DivStep(DivSteps(r, d, k - 1), d)

\* The quotient with integer part q and the fraction frac, as a double.
DivRounded(frac, q) ==
    RoundToDouble(FALSE, DigitsToBits(frac.digits \o <<q % Radix, q \div Radix>>),
                  -(DigitBits * DivDigits), frac.rem # 0)

\* n / d in double arithmetic, for naturals n and d > 0 (both exact doubles).
DblDiv(n, d) == DivRounded(DivSteps(n % d, d, DivDigits), n \div d)

Abs(n) == IF n < 0 THEN -n ELSE n

\* c * x in double arithmetic, for an integer c and a double x.
DblMulInt(c, x) ==
    RoundToDouble((c < 0) # x.neg, MulSmall(x.mant, Abs(c)), x.exp, FALSE)

\* Faulty variant: scaleX computed from the height.
ScaleXDFromHeight(width, height) == DblDiv(height, 1000)

\* const scaleX = width / 1000; const scaleY = height / 1000 (lines 23-24)
ScaleXD(width, height) == DblDiv(width, 1000)
ScaleYD(width, height) == DblDiv(height, 1000)

\* xmin * scaleX, ymin * scaleY, and the like (lines 50-51, 69-70, 82-85)
PixelX(c, width, height) == DblMulInt(c, ScaleXD(width, height))
PixelY(c, width, height) == DblMulInt(c, ScaleYD(width, height))

\* The coordinates and extents the mapper is applied to.
Coords  == {0, 1, 3, 100, 333, 500, 999, 1000, -100, 1200}
Extents == {1, 375, 600, 800, 1000, 1001, 1920}

InitMap ==
    /\ InitAppIdle
    /\ InitSpeechNone
    /\ InitCameraNone
    /\ viewportDims = [width |-> 800, height |-> 600]
    /\ InitCanvasNone
    /\ mapIn \in [cx : Coords, cy : Coords, width : Extents, height : Extents]
    /\ mapOut = NoOut

\* One point (cx, cy) mapped to pixels.
MapPoint ==
    /\ ~mapOut.done
    /\ mapOut' = [done |-> TRUE,
                  x |-> PixelX(mapIn.cx, mapIn.width, mapIn.height),
                  y |-> PixelY(mapIn.cy, mapIn.width, mapIn.height)]
    /\ UNCHANGED <<mapIn, appVars, canvasVars, speechVars, cameraVars>>

NextMap == MapPoint

SpecMap == InitMap /\ [][NextMap]_vars

\* The double v is exactly the rational n / 1000, n an integer.
IsExactly(v, n) ==
    IF n = 0 THEN v.mant = <<>>
    ELSE /\ v.neg = (n < 0)
         /\ v.mant # <<>>
         /\ IF v.exp <= 0
            THEN MulSmall(v.mant, 1000) = ShiftLeft(NatBits(Abs(n)), -v.exp)
            ELSE ShiftLeft(MulSmall(v.mant, 1000), v.exp) = NatBits(Abs(n))

\* The double v is within the relative error 2^-51 of n / 1000 (v.exp <= 0).
IsWithinRounding(v, n) ==
    IF n = 0 THEN v.mant = <<>>
    ELSE /\ v.neg = (n < 0)
         /\ v.mant # <<>>
         /\ v.exp <= 0
         /\ LET a == MulSmall(v.mant, 1000)
                b == ShiftLeft(NatBits(Abs(n)), -v.exp)
            IN  BigLeq(ShiftLeft(BigDiff(a, b), 51), b)


\* The double JavaScript evaluates  c * E / 1000  to: the integer c * E
\* divided once, which is the rational c * E / 1000 correctly rounded.
DblQuotient(c, extent) ==
    LET q == DblDiv(Abs(c * extent), 1000)
    IN  IF q.mant = <<>> THEN q ELSE [q EXCEPT !.neg = (c * extent < 0)]

\* C9 as stated: for c in [0, 1000] the mapped value equals c * E / 1000, so
\* that 0 maps to 0 and 1000 maps to E.
C9_ExactlyProportional ==
    mapOut.done =>
        /\ mapIn.cx \in 0..1000 => mapOut.x = DblQuotient(mapIn.cx, mapIn.width)
        /\ mapIn.cy \in 0..1000 => mapOut.y = DblQuotient(mapIn.cy, mapIn.height)

\* C9, amended: the mapped value is the double product c * (E / 1000), X
\* from the width and Y from the height: it is within the relative error
\* 2^-51 of c * E / 1000 (two roundings), 0 maps to 0, and a coordinate
\* outside [0, 1000] is mapped like any other, without clamping.
C9_ProportionalUpToRounding ==
    mapOut.done =>
        /\ IsWithinRounding(mapOut.x, mapIn.cx * mapIn.width)
        /\ IsWithinRounding(mapOut.y, mapIn.cy * mapIn.height)
        /\ mapIn.cx = 0 => mapOut.x = DblZero
        /\ mapIn.cy = 0 => mapOut.y = DblZero

\* 1000 was mapped on an extent of 1001 and did not come out as 1001, next
\* to a 0 mapped to 0.
C9_Witness ==
    /\ mapOut.done
    /\ mapIn.cx = 1000
    /\ mapIn.width = 1001
    /\ mapOut.x # DblQuotient(1000, 1001)
    /\ IsExactly(DblQuotient(1000, 1001), 1001000)
    /\ mapIn.cy = 0
    /\ mapOut.y = DblZero


(***************************************************************************)
(* Properties of the shapes (checked under SpecCanvas)                     *)
(***************************************************************************)
\* Annotation i of the latest pass is a box or a highlight with a box_2d of
\* length 4 whose iteration ran.
IsRectAnn(i) ==
    /\ Items[i].type \in {"box", "highlight"}
    /\ Items[i].box_2d.present
    /\ Len(Items[i].box_2d.val) = 4
    /\ i <= LastVisited

\* Its rectangle <<x, y, w, h>> on the current canvas, in 1/1000 px.
RectOf(a) ==
    << a.box_2d.val[2] * props.width, a.box_2d.val[1] * props.height,
       (a.box_2d.val[4] - a.box_2d.val[2]) * props.width,
       (a.box_2d.val[3] - a.box_2d.val[1]) * props.height >>

\* The calls of iteration i that paint the rectangle r.
RectPaintsOf(i, r) ==
    SelectSeq(CallsOf(i), LAMBDA c : c.op \in {"fillRect", "strokeRect"} /\ c.args = r)

\* C11: a highlight is painted as one fillRect of its rectangle in the type
\* colour at alpha 0x40 (25%), then one strokeRect of the same rectangle in
\* the type colour, and these are the first shape calls of its iteration; a
\* box is painted as one strokeRect, and no fillRect of its rectangle and no
\* fill() is issued for it.
C11_HighlightFilledBoxStroked ==
    (PassRan /\ props.annotations.kind = "array") =>
        \A i \in 1..Len(Items) : IsRectAnn(i) =>
            LET r == RectOf(Items[i])
                p == RectPaintsOf(i, r)
                s == ShapeCallsOf(i)
            IN  IF Items[i].type = "highlight"
                THEN /\ Len(p) = 2
                     /\ p[1].op = "fillRect"
                     /\ p[1].style.fillStyle = "#f9731640"
                     /\ p[2].op = "strokeRect"
                     /\ p[2].style.strokeStyle = "#f97316"
                     /\ Len(s) >= 2
                     /\ s[1] = p[1]
                     /\ s[2] = p[2]
                ELSE /\ Len(p) = 1
                     /\ p[1].op = "strokeRect"
                     /\ p[1].style.strokeStyle = "#22c55e"
                     /\ s[1] = p[1]
                     /\ \A k \in 1..Len(s) : s[k].op # "fill"

\* A highlight and then a box were drawn in one pass.
C11_Witness ==
    /\ PassRan
    /\ Len(Items) = 2
    /\ Items[1].type = "highlight"
    /\ Items[2].type = "box"
    /\ IsRectAnn(1)
    /\ IsRectAnn(2)
    /\ Len(RectPaintsOf(1, RectOf(Items[1]))) = 2
    /\ Len(RectPaintsOf(2, RectOf(Items[2]))) = 1


\* Annotation i of the latest pass is a circle with a center of length 2
\* that the pass reached.
IsCircleAnn(i) ==
    /\ Items[i].type = "circle"
    /\ Items[i].center.present
    /\ Len(Items[i].center.val) = 2
    /\ i <= LastVisited

\* The radius the claim gives a circle: its own, or 50 when absent or zero.
RadiusOrDefault(a) ==
    IF a.radius.present /\ a.radius.val # 0 THEN a.radius.val ELSE 50

\* The circle <<cx, cy, r>> the claim has annotation a stroked as, in
\* 1/1000 px: both the center's x and the radius by the width.
CircleOf(a) ==
    << a.center.val[1] * props.width, a.center.val[2] * props.height,
       RadiusOrDefault(a) * props.width >>

\* Iteration i strokes exactly the circle CircleOf(Items[i]), in red, and
\* raises nothing.
CircleStrokedAt(i) ==
    LET strokes == SelectSeq(CallsOf(i), LAMBDA c : c.op = "stroke")
    IN  /\ Len(strokes) = 1
        /\ strokes[1].path = << PathSeg("arc", CircleOf(Items[i])) >>
        /\ strokes[1].style.strokeStyle = "#ef4444"
        /\ ~SoloPass(Items[i]).thrown

\* C12 as stated: every circle with a center of length 2 is stroked at
\* (center.x*scaleX, center.y*scaleY) with radius r*scaleX, r its radius or
\* 50 when the radius is absent or zero.
C12_CircleStroked ==
    (PassRan /\ props.annotations.kind = "array") =>
        \A i \in 1..Len(Items) : IsCircleAnn(i) => CircleStrokedAt(i)

\* The same for the circles whose radius is not negative: these are stroked
\* as stated, and the ones with a negative radius are the only ones that
\* are not.
C12_NonNegativeCircleStroked ==
    (PassRan /\ props.annotations.kind = "array") =>
        \A i \in 1..Len(Items) :
            IsCircleAnn(i) =>
                (CircleStrokedAt(i) <=> RadiusOrDefault(Items[i]) >= 0)

\* A circle with radius 0 and one without radius were stroked with radius
\* 50 * width / 1000 on a canvas that is not square.
C12_DefaultWitness ==
    /\ PassRan
    /\ ~crashed
    /\ props.width # props.height
    /\ Len(Items) = 2
    /\ IsCircleAnn(1)
    /\ IsCircleAnn(2)
    /\ Items[1].radius.present
    /\ Items[1].radius.val = 0
    /\ ~Items[2].radius.present
    /\ CircleStrokedAt(1)
    /\ CircleStrokedAt(2)
    /\ CircleOf(Items[1])[3] = 50 * props.width


\* The palette of the claim: box green, highlight orange, circle red, arrow
\* yellow, otherwise blue.
Palette(type) ==
    CASE type = "box"       -> "#22c55e"
      [] type = "highlight" -> "#f97316"
      [] type = "circle"    -> "#ef4444"
      [] type = "arrow"     -> "#eab308"
      [] OTHER              -> "#3b82f6"

\* The colour the painting call c paints in.
PaintColor(c) ==
    IF c.op \in {"strokeRect", "stroke"} THEN c.style.strokeStyle ELSE c.style.fillStyle

\* The painting calls of iteration i.
PaintsOf(i) == SelectSeq(CallsOf(i), LAMBDA c : c.op \in PaintOps)

\* The label's backing plate: a fillRect in the plate's near-black.
IsPlate(c) == c.op = "fillRect" /\ c.style.fillStyle = "rgba(0,0,0,0.8)"

\* C13: at every position of every list, the iteration first sets
\* strokeStyle and fillStyle to the colour of the annotation's own type;
\* every stroke (strokeRect, stroke) of the annotation, the arrowhead's
\* fill() and the label's text are painted in that colour, a highlight's
\* rectangle is filled in that colour at alpha 0x40, and the only other
\* painting is the label's dark backing plate - whatever was drawn before.
C13_OwnTypeColor ==
    (PassRan /\ props.annotations.kind = "array") =>
        \A i \in 1..Len(Items) : (i <= LastVisited) =>
            LET color == Palette(Items[i].type)
                cs    == CallsOf(i)
                ps    == PaintsOf(i)
            IN  /\ Len(cs) >= 2
                /\ cs[1].op = "set" /\ cs[1].prop = "strokeStyle" /\ cs[1].val = color
                /\ cs[2].op = "set" /\ cs[2].prop = "fillStyle" /\ cs[2].val = color
                /\ \A k \in 1..Len(ps) :
                       \/ PaintColor(ps[k]) = color
                       \/ /\ ps[k].op = "fillRect"
                          /\ Items[i].type = "highlight"
                          /\ k = 1
                          /\ PaintColor(ps[k]) = color \o "40"
                       \/ /\ IsPlate(ps[k])
                          /\ k = Len(ps) - 1
                          /\ ps[Len(ps)].op = "fillText"
                /\ \A k \in 1..Len(ps) :
                       ps[k].op \in {"strokeRect", "stroke", "fill", "fillText"} =>
                           PaintColor(ps[k]) = color

\* An arrow was drawn after a highlight and its label: the arrowhead and the
\* arrow's label text are yellow.
C13_Witness ==
    /\ PassRan
    /\ Len(Items) = 2
    /\ Items[1].type = "highlight"
    /\ Items[2].type = "arrow"
    /\ \E k \in 1..Len(calls) :
          calls[k].op = "fillText" /\ calls[k].tag = 1 /\ calls[k].style.fillStyle = "#f97316"
    /\ \E k \in 1..Len(calls) :
          calls[k].op = "fill" /\ calls[k].tag = 2 /\ calls[k].style.fillStyle = "#eab308"
    /\ \E k \in 1..Len(calls) :
          calls[k].op = "fillText" /\ calls[k].tag = 2 /\ calls[k].style.fillStyle = "#eab308"


\* Annotation i of the latest pass was drawn: its iteration painted.
IsDrawn(i) == PaintsOf(i) # <<>>

\* The label of iteration i: one measureText, one backing plate and one
\* fillText, issued after every other shape call of the iteration, the plate
\* laid out around the text's anchor.
HasOneLabelAt(i, anchor) ==
    LET s == ShapeCallsOf(i)
        n == Len(s)
        text == Items[i].label
    IN  /\ n >= 4
        /\ s[n].op = "fillText"
        /\ s[n].text = text
        /\ s[n].args = anchor
        /\ IsPlate(s[n - 1])
        /\ s[n - 1].args = << anchor[1] - 6000, anchor[2] - 14000 - 6000,
                              TextWidth(text) + 12000, 24000 >>
        /\ s[n - 2].op = "measureText"
        /\ s[n - 2].text = text
        /\ \A k \in 1..(n - 3) :
               /\ s[k].op \notin {"fillText", "measureText"}
               /\ ~IsPlate(s[k])
        /\ \E k \in 1..(n - 3) : s[k].op \in {"strokeRect", "stroke"}

\* The anchor of a circle's label: (cx - 20, cy - r - 10).
CircleAnchor(a) ==
    << CircleOf(a)[1] - 20000, CircleOf(a)[2] - CircleOf(a)[3] - 10000 >>

\* The anchor of an arrow's label: 20 px above the start point.
ArrowAnchor(a) ==
    << a.start.val[1] * props.width, a.start.val[2] * props.height - 20000 >>

\* 10 px above the top edge of the rectangle as painted, at its left x.
AboveTopEdge(a) ==
    LET r == RectOf(a)
    IN  << Min({r[1], r[1] + r[3]}), Min({r[2], r[2] + r[4]}) - 10000 >>

\* 10 px above the rectangle's origin (xmin*scaleX, ymin*scaleY).
AboveOrigin(a) == << RectOf(a)[1], RectOf(a)[2] - 10000 >>

\* C14 as stated: every drawn annotation gets exactly one label after its
\* shape; a box or highlight has it 10 px above the top edge of its
\* rectangle at the rectangle's left x, also when ymin > ymax.
C14_LabelAboveTopEdge ==
    (PassRan /\ props.annotations.kind = "array") =>
        \A i \in 1..Len(Items) : IsDrawn(i) =>
            HasOneLabelAt(i, CASE Items[i].type = "circle" -> CircleAnchor(Items[i])
                               [] Items[i].type = "arrow"  -> ArrowAnchor(Items[i])
                               [] OTHER                    -> AboveTopEdge(Items[i]))

\* C14, amended: every drawn annotation gets exactly one label after its
\* shape; a box or highlight has it 10 px above the rectangle's origin
\* (xmin*scaleX, ymin*scaleY), which is the top edge at the left x only when
\* ymin <= ymax and xmin <= xmax; a circle at (cx - 20, cy - r - 10); an
\* arrow 20 px above its start point.
C14_LabelAboveOrigin ==
    (PassRan /\ props.annotations.kind = "array") =>
        \A i \in 1..Len(Items) : IsDrawn(i) =>
            HasOneLabelAt(i, CASE Items[i].type = "circle" -> CircleAnchor(Items[i])
                               [] Items[i].type = "arrow"  -> ArrowAnchor(Items[i])
                               [] OTHER                    -> AboveOrigin(Items[i]))

\* A box with ymin > ymax and xmin > xmax was drawn, its label above the
\* origin and so below the painted rectangle's top edge, and an arrow after
\* it with its label above the start point.
C14_Witness ==
    /\ PassRan
    /\ Len(Items) = 2
    /\ IsRectAnn(1)
    /\ Items[1].box_2d.val[1] > Items[1].box_2d.val[3]
    /\ Items[1].box_2d.val[2] > Items[1].box_2d.val[4]
    /\ IsDrawn(1)
    /\ HasOneLabelAt(1, AboveOrigin(Items[1]))
    /\ AboveOrigin(Items[1])[2] > AboveTopEdge(Items[1])[2] + 10000
    /\ Items[2].type = "arrow"
    /\ IsDrawn(2)
    /\ HasOneLabelAt(2, ArrowAnchor(Items[2]))


(***************************************************************************)
(* ResultsPanel: reading the result aloud (lines 10-42).                   *)
(* speechSynthesis keeps a queue of utterances: one is spoken at a time,   *)
(* cancel() empties the queue, and the events of an utterance (end, error) *)
(* are dispatched to the page later, in the order they were fired.  A      *)
(* state update of a handler is committed before the next handler runs.    *)
(***************************************************************************)
MaxUtterances == 3
MaxPanels == 2

\* What a cancelled utterance that was being spoken fires: an error event
\* ("interrupted"), or, in some browsers, an end event.
CancelOutcomes == {"end", "error"}

Utterance(inst, st) == [inst |-> inst, st |-> st]
SpeechEvent(utt, type) == [utt |-> utt, type |-> type]

\* The utterances speechSynthesis still holds: spoken or waiting.
ActiveUtts(us) == {k \in 1..Len(us) : us[k].st # "over"}

\* speechSynthesis.speak(utterance): spoken at once when the queue is empty.
Speak(us, inst) ==
    Append(us, Utterance(inst, IF ActiveUtts(us) = {} THEN "speaking" ELSE "queued"))

\* speechSynthesis.cancel(): every utterance leaves the queue.
CancelUtts(us) == [k \in 1..Len(us) |-> [us[k] EXCEPT !.st = "over"]]

\* The events cancel() fires: for the utterance being spoken `how`, for the
\* ones that had not begun an error ("canceled").
CancelEvents(us, how) ==
    LET all == [k \in 1..Len(us) |->
                   SpeechEvent(k, IF us[k].st = "speaking" THEN how ELSE "error")]
    IN  SelectSeq(all, LAMBDA e : us[e.utt].st # "over")

\* The utterance being spoken is over; the next one waiting is spoken.
EndUtt(us, k) ==
    LET waiting == {j \in 1..Len(us) : us[j].st = "queued"}
        next    == IF waiting = {} THEN 0 ELSE Min(waiting)
    IN  [j \in 1..Len(us) |->
            IF j = k THEN [us[j] EXCEPT !.st = "over"]
            ELSE IF j = next THEN [us[j] EXCEPT !.st = "speaking"]
            ELSE us[j]]

\* toggleSpeech (lines 22-42).
ToggleSpeech(how) ==
    /\ panelMounted
    /\ IF isSpeaking
       THEN /\ utts' = CancelUtts(utts)
            /\ events' = events \o CancelEvents(utts, how)
            /\ isSpeaking' = FALSE
       ELSE /\ Len(utts) < MaxUtterances
            /\ utts' = Speak(utts, panelInst)
            /\ isSpeaking' = TRUE
            /\ UNCHANGED events
    /\ UNCHANGED <<panelMounted, panelInst, appVars, canvasVars, mapVars, cameraVars>>

\* The utterance being spoken reaches its end.
FinishSpeaking ==
    /\ \E k \in 1..Len(utts) :
          /\ utts[k].st = "speaking"
          /\ utts' = EndUtt(utts, k)
          /\ events' = Append(events, SpeechEvent(k, "end"))
    /\ UNCHANGED <<panelMounted, panelInst, isSpeaking, appVars, canvasVars, mapVars, cameraVars>>

\* The utterance being spoken fails (synthesis-failed, audio-busy, ...).
FailSpeaking ==
    /\ \E k \in 1..Len(utts) :
          /\ utts[k].st = "speaking"
          /\ utts' = EndUtt(utts, k)
          /\ events' = Append(events, SpeechEvent(k, "error"))
    /\ UNCHANGED <<panelMounted, panelInst, isSpeaking, appVars, canvasVars, mapVars, cameraVars>>

\* The oldest event is dispatched: utterance.onend (line 37) sets isSpeaking
\* of the instance that created the utterance; there is no onerror.
DispatchEvent ==
    /\ events # <<>>
    /\ events' = Tail(events)
    /\ isSpeaking' =
           IF /\ Head(events).type = "end"
              /\ panelMounted
              /\ utts[Head(events).utt].inst = panelInst
           THEN FALSE
           ELSE isSpeaking
    /\ UNCHANGED <<panelMounted, panelInst, utts, appVars, canvasVars, mapVars, cameraVars>>

\* ResultsPanel unmounts: the effect's cleanup (lines 16-20) cancels.
UnmountPanel(how) ==
    /\ panelMounted
    /\ panelMounted' = FALSE
    /\ isSpeaking' = FALSE
    /\ utts' = CancelUtts(utts)
    /\ events' = events \o CancelEvents(utts, how)
    /\ UNCHANGED <<panelInst, appVars, canvasVars, mapVars, cameraVars>>

\* Another analysis completes: a new ResultsPanel, isSpeaking false.
MountPanel ==
    /\ ~panelMounted
    /\ panelInst < MaxPanels
    /\ panelMounted' = TRUE
    /\ panelInst' = panelInst + 1
    /\ isSpeaking' = FALSE
    /\ UNCHANGED <<utts, events, appVars, canvasVars, mapVars, cameraVars>>

\* A ResultsPanel after its first render.
InitSpeech ==
    /\ InitAppIdle
    /\ viewportDims = [width |-> 800, height |-> 600]
    /\ InitCanvasNone
    /\ InitMapNone
    /\ InitCameraNone
    /\ panelMounted = TRUE
    /\ panelInst = 1
    /\ isSpeaking = FALSE
    /\ utts = <<>>
    /\ events = <<>>

NextSpeech ==
    \/ \E how \in CancelOutcomes : ToggleSpeech(how)
    \/ FinishSpeaking
    \/ FailSpeaking
    \/ DispatchEvent
    \/ \E how \in CancelOutcomes : UnmountPanel(how)
    \/ MountPanel

SpecSpeech == InitSpeech /\ [][NextSpeech]_vars

\* An utterance the mounted panel started is being spoken or waits.
OwnSpeech == \E k \in 1..Len(utts) : utts[k].inst = panelInst /\ utts[k].st # "over"

\* An end event of one of the mounted panel's utterances is on its way.
OwnEndComing ==
    \E k \in 1..Len(events) :
        events[k].type = "end" /\ utts[events[k].utt].inst = panelInst

\* C15 as stated: isSpeaking is true while an utterance the panel started
\* is being spoken (no end event of an earlier utterance turns it false
\* under a later one), and it is not left true once speech has stopped: when
\* it is true, an utterance of the panel is being spoken or the end event
\* that resets it is on its way.
C15_SpeakingExactlyWhileSpoken ==
    panelMounted =>
        /\ OwnSpeech => isSpeaking
        /\ isSpeaking => (OwnSpeech \/ OwnEndComing)


(***************************************************************************)
(* CameraCapture: the camera stream (lines 188-240).                       *)
(* A getUserMedia promise settles at any later time, also after the        *)
(* component that awaits it has unmounted; a state update of an unmounted  *)
(* component does nothing.                                                 *)
(***************************************************************************)
MaxStreams == 3
MaxRequests == 2
MaxCameras == 3

\* stream.getTracks().forEach(track => track.stop()) of the stream id, if any.
StopTracks(ss, id) == IF id = 0 THEN ss ELSE [ss EXCEPT ![id] = "stopped"]

\* The sequence q without its element r.
Without(q, r) == SubSeq(q, 1, r - 1) \o SubSeq(q, r + 1, Len(q))

\* startCamera after its await (lines 201-204): getUserMedia resolved with
\* a new stream.  setStream commits it for a mounted component, and the
\* cleanup of the [stream] effect (lines 227-233) stops the stream it
\* replaces.
ResolveCamera(r) ==
    /\ r \in 1..Len(requests)
    /\ Len(streams) < MaxStreams
    /\ requests' = Without(requests, r)
    /\ LET id == Len(streams) + 1
           acquired == Append(streams, "live")
       IN  IF camMounted /\ requests[r] = camInst
           THEN /\ streams' = StopTracks(acquired, stream)
                /\ stream' = id
           ELSE /\ streams' = acquired
                /\ UNCHANGED stream
    /\ UNCHANGED <<camMounted, camInst, camError, appVars, canvasVars, mapVars, speechVars>>

\* startCamera's catch (lines 205-214): getUserMedia rejected.
RejectCamera(r) ==
    /\ r \in 1..Len(requests)
    /\ requests' = Without(requests, r)
    /\ camError' = IF camMounted /\ requests[r] = camInst THEN TRUE ELSE camError
    /\ UNCHANGED <<camMounted, camInst, stream, streams, appVars, canvasVars, mapVars, speechVars>>

\* Try Again (line 270), rendered while error is set: startCamera again.
RetryCamera ==
    /\ camMounted
    /\ camError
    /\ Len(requests) < MaxRequests
    /\ camError' = FALSE
    /\ requests' = Append(requests, camInst)
    /\ UNCHANGED <<camMounted, camInst, stream, streams, appVars, canvasVars, mapVars, speechVars>>

\* CameraCapture unmounts (App leaves idle): the cleanup of the [stream]
\* effect stops the stream the state holds.
UnmountCamera ==
    /\ camMounted
    /\ camMounted' = FALSE
    /\ streams' = StopTracks(streams, stream)
    /\ stream' = 0
    /\ camError' = FALSE
    /\ UNCHANGED <<camInst, requests, appVars, canvasVars, mapVars, speechVars>>

\* CameraCapture mounts (App is idle again): the effect of lines 218-224
\* calls startCamera.
MountCamera ==
    /\ ~camMounted
    /\ camInst < MaxCameras
    /\ Len(requests) < MaxRequests
    /\ camMounted' = TRUE
    /\ camInst' = camInst + 1
    /\ stream' = 0
    /\ camError' = FALSE
    /\ requests' = Append(requests, camInst + 1)
    /\ UNCHANGED <<streams, appVars, canvasVars, mapVars, speechVars>>

\* A CameraCapture after its first render and effects.
InitCamera ==
    /\ InitAppIdle
    /\ viewportDims = [width |-> 800, height |-> 600]
    /\ InitCanvasNone
    /\ InitMapNone
    /\ InitSpeechNone
    /\ camMounted = TRUE
    /\ camInst = 1
    /\ stream = 0
    /\ camError = FALSE
    /\ requests = <<1>>
    /\ streams = <<>>

NextCamera ==
    \/ \E r \in 1..MaxRequests : ResolveCamera(r)
    \/ \E r \in 1..MaxRequests : RejectCamera(r)
    \/ RetryCamera
    \/ UnmountCamera
    \/ MountCamera

SpecCamera == InitCamera /\ [][NextCamera]_vars

\* C16 as stated: every stream acquired is stopped once the component is
\* unmounted or the stream is replaced: a stream that is live is the one
\* the mounted component holds.
C16_StreamsStopped ==
    \A id \in 1..Len(streams) :
        streams[id] = "live" => (camMounted /\ stream = id)

====
